---- MODULE Spec2Model ----
(***************************************************************************)
(* GPU priority request service: request lifecycle (app.py), SLURM command *)
(* generator and validators (utils.py), Priority row (models.py).          *)
(*                                                                         *)
(* Text is modelled as a sequence of tokens: one token per character for   *)
(* the characters the validators inspect, wider tokens for the literal     *)
(* pieces of an f-string and for a formatted number or date.  String       *)
(* concatenation is \o.  A nullable text column holds Null when it is      *)
(* None, a nullable DateTime column holds NullTime.                        *)
(*                                                                         *)
(* Each handler is an operator from the table, the clock reading and the   *)
(* form to the table it commits and the messages it flashes; the actions   *)
(* apply the handlers to inputs drawn from small sets.  A handler reads    *)
(* the clock once (seconds).  Left out: e-mail, templates, the OIDC login, *)
(* the updated_at column and the Europe/Zurich offset of a log timestamp   *)
(* (a log entry carries the minute of its instant).                        *)
(*                                                                         *)
(* Spec is the request lifecycle.  SpecGen applies the generator to rows   *)
(* with and without a name and a timestamp; SpecList renders the two       *)
(* listings of tables of three requests; SpecSubmit posts and confirms     *)
(* every form of a field-by-field product; SpecRace interleaves the steps  *)
(* of two confirmations; SpecStray posts the administrator forms as a      *)
(* caller who is no administrator or for an id that is not stored;         *)
(* SpecTicket applies the ticket validator to one string; SpecAdminRace    *)
(* interleaves the load, change and commit of two administrator requests   *)
(* on one row.                                                             *)
(***************************************************************************)
EXTENDS Integers, Sequences, FiniteSets, TLC

\* priorities: the priorities table; nextId: its id sequence; now: the clock;
\* ticks: clock advances so far; session: the caller's staged submission;
\* page: the listing rendered last; procs: the requests being served at once
VARIABLES priorities, nextId, now, ticks, session, page, procs

vars == <<priorities, nextId, now, ticks, session, page, procs>>

(***************************** bounds ***************************************)
\* admin_message entries a row may hold before further appends are cut off
MaxLog == 1
\* clock advances in one run
MaxTicks == 1

(***************************** program constants ****************************)
MaxUsernameLen == 50
MinUsernameLen == 2
MaxPriorityNameLen == 50
MinPriorityNameLen == 2
MaxTicketLen == 50
MaxUsernames == 10
MinDuration == 1
MaxDuration == 14
ArchiveDays == 7
SecondsPerMinute == 60
SecondsPerDay == 86400

Null == <<"<None>">>
NullTime == -1
NoId == 0

(***************************** characters ***********************************)
Letters ==
  {"a","b","c","d","e","f","g","h","i","j","k","l","m","n","o","p","q","r",
   "s","t","u","v","w","x","y","z","A","B","C","D","E","F","G","H","I","J",
   "K","L","M","N","O","P","Q","R","S","T","U","V","W","X","Y","Z"}
Digits == {"0","1","2","3","4","5","6","7","8","9"}
Whitespace == {" ", "\n", "\t"}

\* Python truthiness of an optional string: None and '' are falsy
Falsy(s) == s = Null \/ s = <<>>

\* str.strip()
strip(s) ==
  IF \A i \in 1..Len(s) : s[i] \in Whitespace THEN <<>>
  ELSE LET first == CHOOSE i \in 1..Len(s) :
                      s[i] \notin Whitespace /\ \A j \in 1..(i-1) : s[j] \in Whitespace
           last == CHOOSE i \in 1..Len(s) :
                      s[i] \notin Whitespace /\ \A j \in (i+1)..Len(s) : s[j] \in Whitespace
       IN SubSeq(s, first, last)

\* str.split(sep) for a one-character separator
RECURSIVE split(_, _)
split(s, sep) ==
  IF \A i \in 1..Len(s) : s[i] # sep THEN <<s>>
  ELSE LET i == CHOOSE k \in 1..Len(s) : s[k] = sep /\ \A j \in 1..(k-1) : s[j] # sep
       IN <<SubSeq(s, 1, i-1)>> \o split(SubSeq(s, i+1, Len(s)), sep)

\* sep.join(parts)
RECURSIVE join(_, _)
join(sep, parts) ==
  IF parts = <<>> THEN <<>>
  ELSE IF Len(parts) = 1 THEN parts[1]
  ELSE parts[1] \o sep \o join(sep, Tail(parts))

(***************************** utils.py: validators *************************)
\* str.isdigit(): non-empty and every character a digit
isdigit(s) == s # <<>> /\ \A i \in 1..Len(s) : s[i] \in Digits

\* mutant: the ticket is tested as given, surrounding whitespace included
validate_bugzilla_ticket_unstripped(ticket) ==
  IF Falsy(ticket) THEN FALSE
  ELSE isdigit(ticket) /\ Len(ticket) <= MaxTicketLen /\ Len(ticket) >= 1

validate_bugzilla_ticket(ticket) ==
  IF Falsy(ticket) THEN FALSE
  ELSE LET t == strip(ticket)
       IN IF t = <<>> THEN FALSE
          ELSE isdigit(t) /\ Len(t) <= MaxTicketLen /\ Len(t) >= 1

\* re.match(r'^[a-zA-Z][a-zA-Z0-9\.\-]*$', user) on a stripped line
MatchesUsernamePattern(user) ==
  /\ user # <<>>
  /\ user[1] \in Letters
  /\ \A i \in 2..Len(user) : user[i] \in Letters \cup Digits \cup {".", "-"}

validate_username(username) ==
  IF Falsy(username) THEN FALSE
  ELSE IF strip(username) = <<>> THEN FALSE
  ELSE LET parts == split(strip(username), "\n")
           stripped == [i \in 1..Len(parts) |-> strip(parts[i])]
           usernames == SelectSeq(stripped, LAMBDA u : u # <<>>)
       IN IF usernames = <<>> THEN FALSE
          ELSE /\ \A i \in 1..Len(usernames) :
                     /\ MatchesUsernamePattern(usernames[i])
                     /\ ~(Len(usernames[i]) < MinUsernameLen \/ Len(usernames[i]) > MaxUsernameLen)
               /\ Len(usernames) <= MaxUsernames

\* re.match(r'^[a-zA-Z0-9_-]+$', name) on a stripped name
MatchesPriorityPattern(name) ==
  /\ name # <<>>
  /\ \A i \in 1..Len(name) : name[i] \in Letters \cup Digits \cup {"_", "-"}

validate_priority_name(priority_name) ==
  IF Falsy(priority_name) THEN FALSE
  ELSE LET n == strip(priority_name)
       IN IF n = <<>> THEN FALSE
          ELSE /\ MatchesPriorityPattern(n)
               /\ Len(n) >= MinPriorityNameLen
               /\ Len(n) <= MaxPriorityNameLen
               /\ n[1] # "-"
               /\ n[Len(n)] # "-"

(***************************** models.py: Priority **************************)
\* Priority.additional_usernames_list
additional_usernames_list(p) ==
  IF ~Falsy(p.additional_usernames)
  THEN LET parts == split(p.additional_usernames, "\n")
           stripped == [i \in 1..Len(parts) |-> strip(parts[i])]
       IN SelectSeq(stripped, LAMBDA u : u # <<>>)
  ELSE <<>>

(***************************** users ****************************************)
\* The users table and the admin_users table are fixed in this model: one
\* requester and one administrator, plus a caller with no session.
NoUser == "anonymous"
AliceId == "user-alice"
RootId == "user-root"
UserIds == {AliceId, RootId}
Callers == UserIds \cup {NoUser}

\* User.username
Username(uid) ==
  IF uid = AliceId THEN <<"a","l","i","c","e">> ELSE <<"r","o","o","t">>

AdminUsers == {<<"r","o","o","t">>}

is_admin_user(username) ==
  IF Falsy(username) THEN FALSE ELSE username \in AdminUsers

(***************************** utils.py: generator **************************)
\* datetime.strftime at second resolution ('%Y-%m-%d %H:%M:%S')
FormatSeconds(t) == <<ToString(t)>>
\* datetime.strftime at minute resolution ('%Y%m%d%H%M', '%Y-%m-%d %H:%M')
FormatMinutes(t) == <<ToString(t \div SecondsPerMinute)>>

\* all_users = [priority.user.username] + additional_usernames_list
all_users(p) ==
  LET primary == <<Username(p.user_id)>>
  IN IF additional_usernames_list(p) # <<>>
     THEN primary \o additional_usernames_list(p)
     ELSE primary

\* qos_name = f"prio-{base_qos_name}-{priority.duration_days}d"
qos_name(p) == <<"prio-">> \o p.priority_name \o <<"-", ToString(p.duration_days), "d">>

\* one "sacctmgr modify user" line
user_cmd(p, username) ==
  <<"sacctmgr modify user ">> \o username \o <<" set qos+=">> \o qos_name(p)
    \o <<" where account=">> \o p.slurm_project

\* mutant: the cleanup is counted from the submission, not from the acceptance
cleanup_date_from_creation(p) == p.created_at + p.duration_days * SecondsPerDay

\* mutant: the cleanup is dated from the time of generation
cleanup_date_from_now(p) == now + p.duration_days * SecondsPerDay

\* cleanup_date = priority.status_updated_at + timedelta(days=duration_days)
cleanup_date(p) == p.status_updated_at + p.duration_days * SecondsPerDay

\* the cleanup block written whether or not the row carries a timestamp
cleanup_lines_unconditional(p) ==
  << <<>>,
     <<"# Schedule QOS cleanup">>,
     <<"echo 'sacctmgr -i delete qos ">> \o qos_name(p) \o <<"' | at -t ">>
        \o FormatMinutes(cleanup_date(p)) >>

\* the cleanup block, emitted only when status_updated_at is set
cleanup_lines(p) ==
  IF p.status_updated_at # NullTime
  THEN << <<>>,
          <<"# Schedule QOS cleanup">>,
          <<"echo 'sacctmgr -i delete qos ">> \o qos_name(p) \o <<"' | at -t ">>
             \o FormatMinutes(cleanup_date(p)) >>
  ELSE <<>>

\* the header comment block
header_lines(p, clock) ==
  << <<"# GPU Priority Commands for Ticket: ">> \o p.bugzilla_ticket,
     <<"# Generated on: ">> \o FormatSeconds(clock),
     <<"# Base Priority Name: ">> \o p.priority_name,
     <<"# QOS Name: ">> \o qos_name(p),
     <<"# Users: ">> \o join(<<",", " ">>, all_users(p)),
     <<>> >>

\* generate_slurm_command(priority), called when the clock reads clock
generate_slurm_command(p, clock) ==
  IF Falsy(p.priority_name) THEN Null
  ELSE LET users == all_users(p)
           commands ==
             header_lines(p, clock)
             \o << <<"# Create QOS with resource limits">>,
                   <<"sacctmgr add qos ">> \o qos_name(p)
                     \o <<" GrpTRES=gres/gpu:", p.gpu_type, "=", ToString(p.gpu_count)>>
                     \o <<" MaxWall=", ToString(p.duration_days), "-0", " Priority=1000">>,
                   <<>>,
                   <<"# Assign QOS to users">> >>
             \o [i \in 1..Len(users) |-> user_cmd(p, users[i])]
             \o cleanup_lines(p)
             \o << <<>>,
                   <<"# Verification commands">>,
                   <<"sacctmgr show qos ">> \o qos_name(p),
                   <<"squeue -u ">> \o join(<<",">>, users) >>
       IN join(<<"\n">>, commands)

(***************************** the message log ******************************)
\* f"[{timestamp}] {g.user.username}: {text}", timestamp at minute resolution
log_entry(clock, actor, text) ==
  <<"[">> \o FormatMinutes(clock) \o <<"] ">> \o actor \o <<": ">> \o text

\* mutant: the newest entry is put first
append_message_newest_first(old, new_message) ==
  IF ~Falsy(old) THEN new_message \o <<"\n", "\n">> \o old ELSE new_message

\* admin_message += "\n\n" + new_message, or = new_message when empty
append_message(old, new_message) ==
  IF ~Falsy(old) THEN old \o <<"\n", "\n">> \o new_message ELSE new_message

\* the automatic acceptance text
acceptance_text(priority_name) ==
  <<"Priority accepted and configured with name '">> \o priority_name \o <<"'">>

(***************************** app.py: admin handlers ***********************)
\* A handler's outcome: the table after its commit (or rollback) and the
\* messages it flashed.
Outcome(table, messages) == [priorities |-> table, flash |-> messages]

\* mutant: the transition is stamped with its actor but not with its time
stamp_status_without_time(p, new_status, clock, actor) ==
  [p EXCEPT !.status = new_status,
            !.status_updated_by = actor]

\* mutant: the transition time is also written over the creation time
stamp_status_over_created_at(p, new_status, clock, actor) ==
  [p EXCEPT !.status = new_status,
            !.status_updated_at = clock,
            !.status_updated_by = actor,
            !.created_at = clock]

\* mutant: the transition is stamped with its time but not with its actor
stamp_status_without_actor(p, new_status, clock, actor) ==
  [p EXCEPT !.status = new_status,
            !.status_updated_at = clock]

\* lines 417-419: the new status, the transition time and the actor
stamp_status(p, new_status, clock, actor) ==
  [p EXCEPT !.status = new_status,
            !.status_updated_at = clock,
            !.status_updated_by = actor]

\* lines 421-430: the admin message, when one was supplied
add_admin_message(p, admin_message, clock, actor) ==
  IF admin_message # <<>>
  THEN [p EXCEPT !.admin_message =
                   append_message(p.admin_message, log_entry(clock, actor, admin_message))]
  ELSE p

\* mutant: the commands are generated before the new name is set
accept_branch_stale_name(p, admin_message, priority_name, clock, actor) ==
  LET named == [p EXCEPT !.priority_name = priority_name]
      generated == [named EXCEPT !.slurm_command = generate_slurm_command(p, clock)]
  IN IF admin_message = <<>>
     THEN [generated EXCEPT !.admin_message =
             append_message(generated.admin_message,
                            log_entry(clock, actor, acceptance_text(priority_name)))]
     ELSE generated

\* mutant: the automatic message is appended whether or not one was supplied
accept_branch_always_auto(p, admin_message, priority_name, clock, actor) ==
  LET named == [p EXCEPT !.priority_name = priority_name]
      generated == [named EXCEPT !.slurm_command = generate_slurm_command(named, clock)]
  IN [generated EXCEPT !.admin_message =
        append_message(generated.admin_message,
                       log_entry(clock, actor, acceptance_text(priority_name)))]

\* lines 433-447: the accepted branch
accept_branch(p, admin_message, priority_name, clock, actor) ==
  LET named == [p EXCEPT !.priority_name = priority_name]
      generated == [named EXCEPT !.slurm_command = generate_slurm_command(named, clock)]
  IN IF admin_message = <<>>
     THEN [generated EXCEPT !.admin_message =
             append_message(generated.admin_message,
                            log_entry(clock, actor, acceptance_text(priority_name)))]
     ELSE generated

\* mutant: the refused branch forgets to clear the generated commands
refuse_branch_keeps_command(p) ==
  [p EXCEPT !.priority_name = Null]

\* lines 449-452: the refused branch
refuse_branch(p) ==
  [p EXCEPT !.priority_name = Null, !.slurm_command = Null]

\* lines 413-454: the row as update_priority_status commits it
status_update_row(p, new_status, admin_message, priority_name, clock, actor) ==
  LET stamped == stamp_status(p, new_status, clock, actor)
      messaged == add_admin_message(stamped, admin_message, clock, actor)
  IN IF new_status = "accepted"
     THEN accept_branch(messaged, admin_message, priority_name, clock, actor)
     ELSE IF new_status = "refused"
     THEN refuse_branch(messaged)
     ELSE messaged

\* mutant: the decorator only asks for a login
admin_required_login_only(caller) ==
  IF caller = NoUser THEN <<"redirect to login">> ELSE <<>>

\* lines 417-436: the row update_priority_status hands to the generator
status_generator_input(p, new_status, admin_message, priority_name, clock, actor) ==
  LET stamped == stamp_status(p, new_status, clock, actor)
      messaged == add_admin_message(stamped, admin_message, clock, actor)
  IN IF new_status = "accepted"
     THEN << [messaged EXCEPT !.priority_name = priority_name] >>
     ELSE <<>>

\* lines 490-494: the row update_priority_users hands to the generator
users_generator_input(p, additional_usernames) ==
  LET updated == [p EXCEPT !.additional_usernames =
                     IF additional_usernames # <<>> THEN additional_usernames ELSE Null]
  IN IF updated.status = "accepted" /\ ~Falsy(updated.priority_name)
     THEN <<updated>>
     ELSE <<>>

\* the admin_required decorator: the flashes of a caller it turns away
admin_required(caller) ==
  IF caller = NoUser THEN <<"redirect to login">>
  ELSE IF ~is_admin_user(Username(caller))
  THEN <<"Access denied. Admin privileges required.">>
  ELSE <<>>

\* mutant: the priority name is not validated
status_form_error_unvalidated(priority_id, status, priority_name) ==
  IF priority_id = NoId \/ status \notin {"pending", "accepted", "refused"}
  THEN <<"Invalid priority or status">>
  ELSE IF status = "accepted" /\ priority_name = <<>>
  THEN <<"Priority name is required when accepting a priority">>
  ELSE <<>>

\* lines 398-410: the checks made before the row is loaded
status_form_error(priority_id, status, priority_name) ==
  IF priority_id = NoId \/ status \notin {"pending", "accepted", "refused"}
  THEN <<"Invalid priority or status">>
  ELSE IF status = "accepted" /\ priority_name = <<>>
  THEN <<"Priority name is required when accepting a priority">>
  ELSE IF priority_name # <<>> /\ ~validate_priority_name(priority_name)
  THEN <<"Invalid priority name. Use only letters, numbers, underscores, and hyphens">>
  ELSE <<>>

\* POST /update_priority_status
update_priority_status(table, clock, caller, priority_id, status, raw_message, raw_name) ==
  LET admin_message == strip(raw_message)
      priority_name == strip(raw_name)
  IN IF admin_required(caller) # <<>>
     THEN Outcome(table, admin_required(caller))
     ELSE IF status_form_error(priority_id, status, priority_name) # <<>>
     THEN Outcome(table, status_form_error(priority_id, status, priority_name))
     ELSE IF priority_id \notin DOMAIN table
     THEN Outcome(table, <<"Error updating priority status">>)
     ELSE Outcome([table EXCEPT ![priority_id] =
                     status_update_row(table[priority_id], status, admin_message,
                                       priority_name, clock, Username(caller))],
                  <<"Priority status updated">>)

\* mutant: the commands are not regenerated
users_update_row_without_regeneration(p, additional_usernames, clock) ==
  [p EXCEPT !.additional_usernames =
     IF additional_usernames # <<>> THEN additional_usernames ELSE Null]

\* lines 490-494: the row as update_priority_users commits it
users_update_row(p, additional_usernames, clock) ==
  LET updated == [p EXCEPT !.additional_usernames =
                     IF additional_usernames # <<>> THEN additional_usernames ELSE Null]
  IN IF updated.status = "accepted" /\ ~Falsy(updated.priority_name)
     THEN [updated EXCEPT !.slurm_command = generate_slurm_command(updated, clock)]
     ELSE updated

\* mutant: a missing id falls back on the first row of the table
update_priority_users_first_row(table, clock, caller, priority_id, raw_usernames) ==
  LET additional_usernames == strip(raw_usernames)
      found == IF priority_id \in DOMAIN table \/ DOMAIN table = {} THEN priority_id
               ELSE CHOOSE i \in DOMAIN table : \A j \in DOMAIN table : i <= j
  IN IF admin_required(caller) # <<>>
     THEN Outcome(table, admin_required(caller))
     ELSE IF priority_id = NoId
     THEN Outcome(table, <<"Invalid priority ID">>)
     ELSE IF additional_usernames # <<>> /\ ~validate_username(additional_usernames)
     THEN Outcome(table, <<"Invalid additional usernames format">>)
     ELSE IF found \notin DOMAIN table
     THEN Outcome(table, <<"Error updating priority users">>)
     ELSE Outcome([table EXCEPT ![found] =
                     users_update_row(table[found], additional_usernames, clock)],
                  <<"Priority users updated successfully">>)

\* POST /update_priority_users
update_priority_users(table, clock, caller, priority_id, raw_usernames) ==
  LET additional_usernames == strip(raw_usernames)
  IN IF admin_required(caller) # <<>>
     THEN Outcome(table, admin_required(caller))
     ELSE IF priority_id = NoId
     THEN Outcome(table, <<"Invalid priority ID">>)
     ELSE IF additional_usernames # <<>> /\ ~validate_username(additional_usernames)
     THEN Outcome(table, <<"Invalid additional usernames format">>)
     ELSE IF priority_id \notin DOMAIN table
     THEN Outcome(table, <<"Error updating priority users">>)
     ELSE Outcome([table EXCEPT ![priority_id] =
                     users_update_row(table[priority_id], additional_usernames, clock)],
                  <<"Priority users updated successfully">>)

\* mutant: the entry is attributed to the request's owner
message_row_by_owner(p, message, clock, actor) ==
  [p EXCEPT !.admin_message =
     append_message(p.admin_message, log_entry(clock, Username(p.user_id), message))]

\* lines 521-529: the row as add_message commits it
message_row(p, message, clock, actor) ==
  [p EXCEPT !.admin_message =
     append_message(p.admin_message, log_entry(clock, actor, message))]

\* POST /add_message
add_message(table, clock, caller, priority_id, raw_message) ==
  LET message == strip(raw_message)
  IN IF admin_required(caller) # <<>>
     THEN Outcome(table, admin_required(caller))
     ELSE IF priority_id = NoId \/ message = <<>>
     THEN Outcome(table, <<"Priority ID and message are required">>)
     ELSE IF priority_id \notin DOMAIN table
     THEN Outcome(table, <<"Error adding message">>)
     ELSE Outcome([table EXCEPT ![priority_id] =
                     message_row(table[priority_id], message, clock, Username(caller))],
                  <<"Message added to priority">>)

\* POST /delete_priority
delete_priority(table, caller, priority_id) ==
  IF admin_required(caller) # <<>>
  THEN Outcome(table, admin_required(caller))
  ELSE IF priority_id = NoId
  THEN Outcome(table, <<"Invalid priority ID">>)
  ELSE IF priority_id \notin DOMAIN table
  THEN Outcome(table, <<"Error deleting priority">>)
  ELSE Outcome([i \in DOMAIN table \ {priority_id} |-> table[i]],
               <<"Priority deleted successfully">>)

(***************************** app.py: submission ***************************)
GpuTypes == {"rtx3090", "v100", "h100"}

\* the login_required decorator
login_required(caller) ==
  IF caller = NoUser THEN <<"redirect to login">> ELSE <<>>

\* lines 181-190: the form values as the handler reads them
form_data(form) ==
  [form EXCEPT !.bugzilla_ticket = strip(form.bugzilla_ticket),
               !.username = strip(form.username),
               !.additional_usernames = strip(form.additional_usernames),
               !.slurm_project = strip(form.slurm_project),
               !.reason = strip(form.reason)]

\* mutant: the duration is not checked
submit_errors_without_duration(data) ==
     (IF ~validate_bugzilla_ticket(data.bugzilla_ticket)
      THEN <<"Invalid Bugzilla ticket format">> ELSE <<>>)
  \o (IF data.username = <<>>
      THEN <<"Username is required">> ELSE <<>>)
  \o (IF data.additional_usernames # <<>> /\ ~validate_username(data.additional_usernames)
      THEN <<"Invalid additional usernames format">> ELSE <<>>)
  \o (IF data.slurm_project = <<>> \/ ~validate_username(data.slurm_project)
      THEN <<"Valid SLURM project is required">> ELSE <<>>)
  \o (IF data.gpu_type = "" \/ data.gpu_type \notin GpuTypes
      THEN <<"Valid GPU type is required">> ELSE <<>>)
  \o (IF data.gpu_count = 0 \/ data.gpu_count < 1
      THEN <<"GPU count must be at least 1">> ELSE <<>>)
  \o (IF data.reason = <<>>
      THEN <<"Reason is required">> ELSE <<>>)

\* mutant: the checks stop at the first error
submit_errors_first_only(data) ==
  IF ~validate_bugzilla_ticket(data.bugzilla_ticket)
  THEN <<"Invalid Bugzilla ticket format">>
  ELSE IF data.username = <<>>
  THEN <<"Username is required">>
  ELSE IF data.additional_usernames # <<>> /\ ~validate_username(data.additional_usernames)
  THEN <<"Invalid additional usernames format">>
  ELSE IF data.slurm_project = <<>> \/ ~validate_username(data.slurm_project)
  THEN <<"Valid SLURM project is required">>
  ELSE IF data.gpu_type = "" \/ data.gpu_type \notin GpuTypes
  THEN <<"Valid GPU type is required">>
  ELSE IF data.gpu_count = 0 \/ data.gpu_count < 1
  THEN <<"GPU count must be at least 1">>
  ELSE IF data.duration_days = 0 \/ data.duration_days < MinDuration
            \/ data.duration_days > MaxDuration
  THEN <<"Duration must be between 1 and 14 days (maximum 2 weeks)">>
  ELSE IF data.reason = <<>>
  THEN <<"Reason is required">>
  ELSE <<>>

\* lines 193-218: every check appends its own error
submit_errors(data) ==
     (IF ~validate_bugzilla_ticket(data.bugzilla_ticket)
      THEN <<"Invalid Bugzilla ticket format">> ELSE <<>>)
  \o (IF data.username = <<>>
      THEN <<"Username is required">> ELSE <<>>)
  \o (IF data.additional_usernames # <<>> /\ ~validate_username(data.additional_usernames)
      THEN <<"Invalid additional usernames format">> ELSE <<>>)
  \o (IF data.slurm_project = <<>> \/ ~validate_username(data.slurm_project)
      THEN <<"Valid SLURM project is required">> ELSE <<>>)
  \o (IF data.gpu_type = "" \/ data.gpu_type \notin GpuTypes
      THEN <<"Valid GPU type is required">> ELSE <<>>)
  \o (IF data.gpu_count = 0 \/ data.gpu_count < 1
      THEN <<"GPU count must be at least 1">> ELSE <<>>)
  \o (IF data.duration_days = 0 \/ data.duration_days < MinDuration
            \/ data.duration_days > MaxDuration
      THEN <<"Duration must be between 1 and 14 days (maximum 2 weeks)">> ELSE <<>>)
  \o (IF data.reason = <<>>
      THEN <<"Reason is required">> ELSE <<>>)

\* POST /submit_priority: the session's priority_data and the flashes
submit_priority(staged, caller, form) ==
  IF login_required(caller) # <<>>
  THEN [session |-> staged, flash |-> login_required(caller)]
  ELSE IF submit_errors(form_data(form)) # <<>>
  THEN [session |-> staged, flash |-> submit_errors(form_data(form))]
  ELSE [session |-> <<form_data(form)>>, flash |-> <<"confirm page">>]

\* mutant: the new row is stamped as a status transition of its requester
new_priority_stamped(data, uid, clock) ==
  [user_id |-> uid,
   bugzilla_ticket |-> data.bugzilla_ticket,
   additional_usernames |->
     IF data.additional_usernames # <<>> THEN data.additional_usernames ELSE Null,
   slurm_project |-> data.slurm_project,
   gpu_type |-> data.gpu_type,
   gpu_count |-> data.gpu_count,
   duration_days |-> data.duration_days,
   reason |-> data.reason,
   status |-> "pending",
   admin_message |-> Null,
   priority_name |-> Null,
   status_updated_at |-> clock,
   status_updated_by |-> Username(uid),
   slurm_command |-> Null,
   created_at |-> clock]

\* mutant: no unique constraint on the ticket
ticket_taken_never(table, ticket) == FALSE

\* lines 253-262 and the column defaults of models.py
new_priority(data, uid, clock) ==
  [user_id |-> uid,
   bugzilla_ticket |-> data.bugzilla_ticket,
   additional_usernames |->
     IF data.additional_usernames # <<>> THEN data.additional_usernames ELSE Null,
   slurm_project |-> data.slurm_project,
   gpu_type |-> data.gpu_type,
   gpu_count |-> data.gpu_count,
   duration_days |-> data.duration_days,
   reason |-> data.reason,
   status |-> "pending",
   admin_message |-> Null,
   priority_name |-> Null,
   status_updated_at |-> NullTime,
   status_updated_by |-> Null,
   slurm_command |-> Null,
   created_at |-> clock]

\* the unique constraint uq_priority_bugzilla_ticket
ticket_taken(table, ticket) ==
  \E i \in DOMAIN table : table[i].bugzilla_ticket = ticket

\* POST /confirm_priority
confirm_priority(table, id, staged, clock, caller) ==
  IF login_required(caller) # <<>>
  THEN [priorities |-> table, nextId |-> id, session |-> staged,
        flash |-> login_required(caller)]
  ELSE IF staged = <<>>
  THEN [priorities |-> table, nextId |-> id, session |-> staged,
        flash |-> <<"No priority data found. Please fill out the form again.">>]
  ELSE IF ticket_taken(table, staged[1].bugzilla_ticket)
  THEN [priorities |-> table, nextId |-> id, session |-> staged,
        flash |-> <<"A priority with this Bugzilla ticket already exists.">>]
  ELSE [priorities |-> [i \in DOMAIN table \cup {id} |->
                          IF i = id THEN new_priority(staged[1], caller, clock)
                          ELSE table[i]],
        nextId |-> id + 1,
        session |-> <<>>,
        flash |-> <<"Priority submitted successfully!">>]

(***************************** the listings *********************************)
\* str.lower() on the characters of a show_archived argument
UpperCase == [T |-> "t", R |-> "r", U |-> "u", E |-> "e"]
lower(s) ==
  [i \in DOMAIN s |-> IF s[i] \in DOMAIN UpperCase THEN UpperCase[s[i]] ELSE s[i]]

\* request.args.get('show_archived', 'false').lower() == 'true'
show_archived(arg) == lower(arg) = <<"t","r","u","e">>

\* models.py 93-98: Priority.valid_until, NullTime when the row has none
valid_until(p) ==
  IF p.status = "accepted" /\ p.status_updated_at # NullTime
  THEN p.status_updated_at + p.duration_days * SecondsPerDay
  ELSE NullTime

\* mutant: archived from the cutoff instant on
is_archived_from_cutoff(p, utcnow) ==
  IF valid_until(p) # NullTime
  THEN LET archive_cutoff == valid_until(p) + ArchiveDays * SecondsPerDay
       IN utcnow >= archive_cutoff
  ELSE FALSE

\* models.py 107-113: Priority.is_archived, read at the clock time utcnow
is_archived(p, utcnow) ==
  IF valid_until(p) # NullTime
  THEN LET archive_cutoff == valid_until(p) + ArchiveDays * SecondsPerDay
       IN utcnow > archive_cutoff
  ELSE FALSE

\* mutant: a row leaves the default listing as soon as it expires
should_include_until_expiry(p, current_time) ==
  IF p.status = "accepted" /\ p.status_updated_at # NullTime
  THEN LET expiry_date == p.status_updated_at + p.duration_days * SecondsPerDay
       IN ~(current_time > expiry_date)
  ELSE TRUE

\* mutant: a row leaves the default listing at the cutoff instant itself
should_include_before_cutoff(p, current_time) ==
  IF p.status = "accepted" /\ p.status_updated_at # NullTime
  THEN LET expiry_date == p.status_updated_at + p.duration_days * SecondsPerDay
           archive_cutoff == expiry_date + ArchiveDays * SecondsPerDay
       IN current_time < archive_cutoff
  ELSE TRUE

\* lines 331-345: a row stays in the default listing unless it was accepted
\* and more than duration_days + 7 days have passed since
should_include(p, current_time) ==
  IF p.status = "accepted" /\ p.status_updated_at # NullTime
  THEN LET expiry_date == p.status_updated_at + p.duration_days * SecondsPerDay
           archive_cutoff == expiry_date + ArchiveDays * SecondsPerDay
       IN ~(current_time > archive_cutoff)
  ELSE TRUE

\* lines 326-345: the rows kept, in the order the query returned them
filter_archived(table, rows, arg, current_time) ==
  IF ~show_archived(arg)
  THEN SelectSeq(rows, LAMBDA i : should_include(table[i], current_time))
  ELSE rows

\* mutant: the sort without reverse=True
insert_by_created_at_ascending(table, sorted, x) ==
  SelectSeq(sorted, LAMBDA i : table[i].created_at <= table[x].created_at)
  \o <<x>>
  \o SelectSeq(sorted, LAMBDA i : table[i].created_at > table[x].created_at)

\* one step of the stable sort: x goes behind the rows at least as new
insert_by_created_at(table, sorted, x) ==
  SelectSeq(sorted, LAMBDA i : table[i].created_at >= table[x].created_at)
  \o <<x>>
  \o SelectSeq(sorted, LAMBDA i : table[i].created_at < table[x].created_at)

\* sorted(priorities, key=lambda x: x.created_at, reverse=True)
RECURSIVE sorted_by_created_at(_, _)
sorted_by_created_at(table, rows) ==
  IF rows = <<>> THEN <<>>
  ELSE insert_by_created_at(table,
                            sorted_by_created_at(table, SubSeq(rows, 1, Len(rows) - 1)),
                            rows[Len(rows)])

\* what a listing request leaves: the table and the page rendered
NoPage == [view |-> "redirect", clock |-> 0, rows |-> <<>>]
Listing(table, rendered) == [priorities |-> table, page |-> rendered]

\* GET /my_priorities; query is the order in which the database returns rows
my_priorities(table, clock, caller, arg, query) ==
  IF login_required(caller) # <<>> THEN Listing(table, NoPage)
  ELSE LET own == SelectSeq(query, LAMBDA i : table[i].user_id = caller)
           kept == filter_archived(table, own, arg, clock)
       IN Listing(table, [view |-> "my_priorities", clock |-> clock,
                          rows |-> sorted_by_created_at(table, kept)])

\* GET /admin
admin_panel(table, clock, caller, arg, query) ==
  IF admin_required(caller) # <<>> THEN Listing(table, NoPage)
  ELSE LET kept == filter_archived(table, query, arg, clock)
       IN Listing(table, [view |-> "admin", clock |-> clock,
                          rows |-> sorted_by_created_at(table, kept)])

(***************************** inputs ***************************************)
\* a well-formed submission, and the ways the forms of this model depart from it
GoodForm ==
  [bugzilla_ticket |-> <<" ","4","2">>,
   username |-> <<"a","l","i","c","e">>,
   additional_usernames |-> <<>>,
   slurm_project |-> <<"l","a","b">>,
   gpu_type |-> "v100",
   gpu_count |-> 1,
   duration_days |-> 7,
   reason |-> <<"w","h","y">>]

SubmitForms ==
  { GoodForm,
    [GoodForm EXCEPT !.bugzilla_ticket = <<"4","x">>],
    [GoodForm EXCEPT !.username = <<" ">>],
    [GoodForm EXCEPT !.additional_usernames = <<"9","x">>],
    [GoodForm EXCEPT !.duration_days = 0],
    [GoodForm EXCEPT !.duration_days = 15, !.gpu_count = 0],
    [GoodForm EXCEPT !.gpu_type = "a100", !.reason = <<>>, !.slurm_project = <<"l">>] }

MessageInputs == { <<>>, <<" ","o","k">> }
PriorityNameInputs == { <<>>, <<"q","1">>, <<" ","A","_","b"," ">>, <<"-","q">> }
StatusInputs == {"pending", "accepted", "refused", "archived"}
UpdateUsernamesInputs ==
  { <<>>, <<"b","o","\n"," ","a","l","i","c","e","\n">>, <<"9","x">> }
\* the clock moves by two weeks, or by two weeks and a second
ClockSteps == {MaxDuration * SecondsPerDay, MaxDuration * SecondsPerDay + 1}

\* the ids a form may name: the stored ones, none, and one that is not stored
IdInputs == DOMAIN priorities \cup {NoId, nextId}

\* A caller the decorator turns away, a form without an id and a form naming
\* a missing id are each drawn once: the handler returns before it reads the
\* rest of the form.
StatusCalls ==
  { c \in [caller : Callers, id : IdInputs, status : StatusInputs,
           admin_message : MessageInputs, priority_name : PriorityNameInputs] :
      \/ c.caller = RootId /\ c.id \in DOMAIN priorities
           /\ (c.status = "archived" => c.admin_message = <<>> /\ c.priority_name = <<>>)
      \/ c.status = "accepted" /\ c.admin_message = <<>> /\ c.priority_name = <<"q","1">>
           /\ (c.caller = RootId \/ c.id = NoId) }

UsersCalls ==
  { c \in [caller : Callers, id : IdInputs, usernames : UpdateUsernamesInputs] :
      \/ c.caller = RootId /\ c.id \in DOMAIN priorities
      \/ c.usernames = <<>> /\ (c.caller = RootId \/ c.id = NoId) }

MessageCalls ==
  { c \in [caller : Callers, id : IdInputs, message : MessageInputs] :
      \/ c.caller = RootId /\ c.id \in DOMAIN priorities
      \/ c.message = <<" ","o","k">> /\ (c.caller = RootId \/ c.id = NoId) }

(***************************** the message log's length *********************)
\* entries in an admin_message: one more than its blank-line separators
LogLen(m) ==
  IF Falsy(m) THEN 0
  ELSE 1 + Cardinality({i \in 1..(Len(m) - 1) : m[i] = "\n" /\ m[i+1] = "\n"})

LogsWithinBound(table) ==
  \A i \in DOMAIN table : LogLen(table[i].admin_message) <= MaxLog

(***************************** the state machine ****************************)
Init ==
  /\ priorities = <<>>
  /\ nextId = 1
  /\ now = 0
  /\ ticks = 0
  /\ session = <<>>
  /\ page = NoPage
  /\ procs = <<>>

SubmitPriority ==
  \E caller \in {AliceId, NoUser}, form \in SubmitForms :
    /\ caller = NoUser => form = GoodForm
    /\ session' = submit_priority(session, caller, form).session
    /\ UNCHANGED <<priorities, nextId, now, ticks, page, procs>>

ConfirmPriority ==
  \E caller \in {AliceId, NoUser} :
    LET r == confirm_priority(priorities, nextId, session, now, caller)
    IN /\ priorities' = r.priorities
       /\ nextId' = r.nextId
       /\ session' = r.session
       /\ UNCHANGED <<now, ticks, page, procs>>

UpdatePriorityStatus ==
  \E c \in StatusCalls :
    LET r == update_priority_status(priorities, now, c.caller, c.id, c.status,
                                    c.admin_message, c.priority_name)
    IN /\ LogsWithinBound(r.priorities)
       /\ priorities' = r.priorities
       /\ UNCHANGED <<nextId, now, ticks, session, page, procs>>

UpdatePriorityUsers ==
  \E c \in UsersCalls :
    /\ priorities' = update_priority_users(priorities, now, c.caller, c.id, c.usernames).priorities
    /\ UNCHANGED <<nextId, now, ticks, session, page, procs>>

AddMessage ==
  \E c \in MessageCalls :
    LET r == add_message(priorities, now, c.caller, c.id, c.message)
    IN /\ LogsWithinBound(r.priorities)
       /\ priorities' = r.priorities
       /\ UNCHANGED <<nextId, now, ticks, session, page, procs>>

\* time passes
Tick ==
  \E step \in ClockSteps :
    /\ ticks < MaxTicks
    /\ now' = now + step
    /\ ticks' = ticks + 1
    /\ UNCHANGED <<priorities, nextId, session, page, procs>>

Next ==
  \/ SubmitPriority
  \/ ConfirmPriority
  \/ UpdatePriorityStatus
  \/ UpdatePriorityUsers
  \/ AddMessage
  \/ Tick

Spec == Init /\ [][Next]_vars

(***************************** properties ***********************************)
Stored == DOMAIN priorities

\* the priority names of the inputs that pass the handler's checks on accept
GoodNames == {n \in PriorityNameInputs : strip(n) # <<>> /\ validate_priority_name(strip(n))}
\* the priority names of the inputs an accept is refused for
BadNames == PriorityNameInputs \ GoodNames

\* the row an administrator's status update leaves behind
StatusResult(id, status, message, name) ==
  update_priority_status(priorities, now, RootId, id, status, message, name).priorities[id]

\* C1: after every operation, every stored request with status accepted has a
\* non-null priority_name and a non-null slurm_command, and every stored
\* request with status refused has both null.
C1_AcceptedAndRefusedFields ==
  \A i \in Stored :
    /\ priorities[i].status = "accepted" =>
         priorities[i].priority_name # Null /\ priorities[i].slurm_command # Null
    /\ priorities[i].status = "refused" =>
         priorities[i].priority_name = Null /\ priorities[i].slurm_command = Null

\* a request that was accepted (its log holds the acceptance entry) and is now refused
C1_Witness ==
  \E i \in Stored :
    /\ priorities[i].status = "refused"
    /\ priorities[i].admin_message # Null
    /\ priorities[i].slurm_command = Null

\* C2 (as claimed): in every reachable state priority_name is non-null iff
\* status = accepted, and slurm_command is non-null iff status = accepted,
\* for all three statuses.
C2_NonNullIffAccepted ==
  \A i \in Stored :
    /\ priorities[i].priority_name # Null <=> priorities[i].status = "accepted"
    /\ priorities[i].slurm_command # Null <=> priorities[i].status = "accepted"

\* C3: an accept attempt with an empty priority name, or with one that fails
\* validate_priority_name, is rejected and changes no field of any stored
\* request.
C3_BadAcceptChangesNothing ==
  \A id \in IdInputs, message \in MessageInputs, name \in BadNames :
    LET r == update_priority_status(priorities, now, RootId, id, "accepted", message, name)
    IN /\ r.priorities = priorities
       /\ r.flash \in { <<"Invalid priority or status">>,
                        <<"Priority name is required when accepting a priority">>,
                        <<"Invalid priority name. Use only letters, numbers, underscores, and hyphens">> }

\* an accepted request is stored, and an accept naming it with an invalid
\* name and one with an empty name are both turned away
C3_Witness ==
  \E i \in Stored :
    /\ priorities[i].status = "accepted"
    /\ \E name \in BadNames :
         /\ strip(name) # <<>>
         /\ update_priority_status(priorities, now, RootId, i, "accepted", <<>>, name).flash
              = <<"Invalid priority name. Use only letters, numbers, underscores, and hyphens">>
    /\ update_priority_status(priorities, now, RootId, i, "accepted", <<>>, <<>>).flash
         = <<"Priority name is required when accepting a priority">>

\* C4: an accept by an administrator with a valid priority name on an existing
\* request in any status leaves it with status accepted, priority_name the
\* given name (as the handler reads it, surrounding whitespace removed),
\* status_updated_at the current time, status_updated_by the administrator,
\* and slurm_command the generator's output for the row with those values.
C4_AcceptSetsFields ==
  \A id \in Stored, message \in MessageInputs, name \in GoodNames :
    LET r == StatusResult(id, "accepted", message, name)
    IN /\ r.status = "accepted"
       /\ r.priority_name = strip(name)
       /\ r.status_updated_at = now
       /\ r.status_updated_by = Username(RootId)
       /\ r.slurm_command # Null
       /\ r.slurm_command = generate_slurm_command(r, now)

\* a request accepted at the current time, some time after it was created
C4_Witness ==
  \E i \in Stored :
    /\ priorities[i].status = "accepted"
    /\ priorities[i].status_updated_at = now
    /\ priorities[i].created_at < now
    /\ priorities[i].status_updated_by = Username(RootId)

\* C5: every successful accept extends the message log by exactly one entry:
\* the supplied message when one is given, otherwise the automatic acceptance
\* message; never both, never none.
C5_AcceptAppendsOneEntry ==
  \A id \in Stored, message \in MessageInputs, name \in GoodNames :
    LET old == priorities[id].admin_message
        new == StatusResult(id, "accepted", message, name).admin_message
        text == IF strip(message) # <<>> THEN strip(message)
                ELSE acceptance_text(strip(name))
        entry == log_entry(now, Username(RootId), text)
    IN /\ new = (IF Falsy(old) THEN entry ELSE old \o <<"\n", "\n">> \o entry)
       /\ LogLen(new) = LogLen(old) + 1

\* an accepted request whose log holds exactly the one entry of its acceptance
C5_Witness ==
  \E i \in Stored :
    /\ priorities[i].status = "accepted"
    /\ LogLen(priorities[i].admin_message) = 1
    /\ priorities[i].status_updated_at = now

\* the status forms of the inputs that pass the handler's checks on a refusal
\* (the priority-name field empty or valid)
PlainNames == {n \in PriorityNameInputs : strip(n) = <<>> \/ validate_priority_name(strip(n))}

\* C6: a refuse by an administrator on an existing request in any status
\* leaves it refused, with priority_name and slurm_command null, the status
\* stamp renewed, and the log extended by exactly one entry when a message is
\* supplied and unchanged when none is.  The refusal's form carries an empty
\* or a valid priority-name field.
C6_RefuseSetsFields ==
  \A id \in Stored, message \in MessageInputs, name \in PlainNames :
    LET old == priorities[id]
        r == StatusResult(id, "refused", message, name)
    IN /\ r.status = "refused"
       /\ r.priority_name = Null
       /\ r.slurm_command = Null
       /\ r.status_updated_at = now
       /\ r.status_updated_by = Username(RootId)
       /\ IF strip(message) # <<>>
          THEN /\ r.admin_message =
                    append_message(old.admin_message,
                                   log_entry(now, Username(RootId), strip(message)))
               /\ LogLen(r.admin_message) = LogLen(old.admin_message) + 1
          ELSE r.admin_message = old.admin_message

\* a request refused at the current time with a message, before any acceptance
C6_Witness ==
  \E i \in Stored :
    /\ priorities[i].status = "refused"
    /\ priorities[i].status_updated_at = now
    /\ priorities[i].admin_message = log_entry(now, Username(RootId), <<"o","k">>)

\* C7: add_message succeeds on an existing request in every status, appends
\* one entry attributed to the acting administrator, and leaves every other
\* field of the request unchanged.
C7_AddMessageFrame ==
  \A id \in Stored, message \in MessageInputs :
    strip(message) # <<>> =>
      LET old == priorities[id]
          out == add_message(priorities, now, RootId, id, message)
      IN /\ out.flash = <<"Message added to priority">>
         /\ out.priorities =
              [priorities EXCEPT ![id] =
                 [old EXCEPT !.admin_message =
                    append_message(old.admin_message,
                                   log_entry(now, Username(RootId), strip(message)))]]
         /\ LogLen(out.priorities[id].admin_message) = LogLen(old.admin_message) + 1

\* a message was added to a request that no status update has touched
C7_Witness ==
  \E i \in Stored :
    /\ priorities[i].status = "pending"
    /\ priorities[i].status_updated_at = NullTime
    /\ priorities[i].admin_message = log_entry(now, Username(RootId), <<"o","k">>)

\* the usernames of the inputs that pass the handler's check
GoodUsernames ==
  {u \in UpdateUsernamesInputs : strip(u) = <<>> \/ validate_username(strip(u))}

\* C8 (as claimed): after update_additional_users on a request whose status
\* is not accepted, slurm_command is null.
C8_UsersUpdateLeavesNoCommand ==
  \A id \in Stored, usernames \in GoodUsernames :
    LET r == update_priority_users(priorities, now, RootId, id, usernames).priorities[id]
    IN r.status # "accepted" => r.slurm_command = Null

\* the lines of a generated text
Lines(text) == IF text = Null THEN <<>> ELSE split(text, "\n")

\* the user each "sacctmgr modify user" line of a generated text names
AssignedUsers(text) ==
  LET assigns == SelectSeq(Lines(text),
                           LAMBDA l : l # <<>> /\ l[1] = "sacctmgr modify user ")
      user(l) == LET k == CHOOSE j \in 1..Len(l) : l[j] = " set qos+="
                 IN SubSeq(l, 2, k - 1)
  IN [i \in 1..Len(assigns) |-> user(assigns[i])]

\* C9: for every accepted request the per-user assignment commands in
\* slurm_command are one per element of [requester username] followed by the
\* current additional-usernames list, in order and without de-duplication.
C9_AssignmentsFollowUsers ==
  \A i \in Stored :
    priorities[i].status = "accepted" =>
      AssignedUsers(priorities[i].slurm_command)
        = <<Username(priorities[i].user_id)>> \o additional_usernames_list(priorities[i])

\* an accepted request whose additional usernames were set after the
\* acceptance and repeat the requester
C9_Witness ==
  \E i \in Stored :
    /\ priorities[i].status = "accepted"
    /\ additional_usernames_list(priorities[i])
         = << <<"b","o">>, Username(priorities[i].user_id) >>
    /\ Len(AssignedUsers(priorities[i].slurm_command)) = Len(all_users(priorities[i]))
    /\ Len(all_users(priorities[i])) > 2

\* a generated text without its "# Generated on:" line
WithoutGenerationLine(text) ==
  SelectSeq(Lines(text), LAMBDA l : l = <<>> \/ l[1] # "# Generated on: ")

\* the "# Generated on:" lines of a generated text
GenerationLines(text) ==
  SelectSeq(Lines(text), LAMBDA l : l # <<>> /\ l[1] = "# Generated on: ")

\* C10 (as claimed): a call of generate_slurm_command on an accepted request
\* returns the text the earlier call stored for it, none of its fields having
\* changed since, at whatever clock time the second call is made.
C10_GeneratorIdempotent ==
  \A i \in Stored :
    priorities[i].status = "accepted" =>
      generate_slurm_command(priorities[i], now) = priorities[i].slurm_command

\* C10 (amended): the two texts agree in every line but the "# Generated on:"
\* line, which holds the clock time of the call that produced it.
C10_IdempotentButForGenerationLine ==
  \A i \in Stored :
    priorities[i].status = "accepted" =>
      LET again == generate_slurm_command(priorities[i], now)
      IN /\ WithoutGenerationLine(again) = WithoutGenerationLine(priorities[i].slurm_command)
         /\ GenerationLines(again) = << <<"# Generated on: ">> \o FormatSeconds(now) >>
         /\ Len(GenerationLines(priorities[i].slurm_command)) = 1

\* an accepted request whose stored text was generated at an earlier clock
\* time than the current one
C10_Witness ==
  \E i \in Stored :
    /\ priorities[i].status = "accepted"
    /\ priorities[i].status_updated_at < now
    /\ generate_slurm_command(priorities[i], now) # priorities[i].slurm_command

(***************************** the generator on its own *********************)
\* Rows handed to the generator: with and without a priority name, with and
\* without a transition timestamp, with and without additional users.
GeneratorRows ==
  { [new_priority(form_data(GoodForm), AliceId, 0) EXCEPT
       !.priority_name = n, !.status_updated_at = t,
       !.additional_usernames = a, !.duration_days = d] :
      n \in {Null, <<>>, <<"q","1">>, <<"A","_","b">>},
      t \in {NullTime, 0, MaxDuration * SecondsPerDay + 1},
      a \in {Null, <<"b","o","\n","a","l","i","c","e">>},
      d \in {MinDuration, MaxDuration} }

InitGen ==
  /\ \E row \in GeneratorRows : priorities = [i \in {1} |-> row]
  /\ nextId = 2
  /\ now = 0
  /\ ticks = 0
  /\ session = <<>>
  /\ page = NoPage
  /\ procs = <<>>

\* priority.slurm_command = generate_slurm_command(priority)
GenerateSlurmCommand ==
  \E i \in DOMAIN priorities :
    /\ priorities' = [priorities EXCEPT
                        ![i].slurm_command = generate_slurm_command(priorities[i], now)]
    /\ UNCHANGED <<nextId, now, ticks, session, page, procs>>

NextGen ==
  \/ GenerateSlurmCommand
  \/ Tick

SpecGen == InitGen /\ [][NextGen]_vars

\* the text holds the cleanup block
HasCleanupBlock(text) ==
  \E k \in DOMAIN Lines(text) : Lines(text)[k] = <<"# Schedule QOS cleanup">>

AfterToken(text, token) ==
  LET found == SelectSeq(Lines(text), LAMBDA l : l # <<>> /\ l[1] = token)
  IN IF found = <<>> THEN Null ELSE Tail(found[1])

\* the QOS name of the "# QOS Name:" line and of the "sacctmgr add qos" line
HeaderQos(text) == AfterToken(text, "# QOS Name: ")
CreatedQos(text) ==
  LET rest == AfterToken(text, "sacctmgr add qos ")
      k == CHOOSE j \in DOMAIN rest : rest[j] = " GrpTRES=gres/gpu:"
  IN SubSeq(rest, 1, k - 1)
\* the QOS name and the instant of the scheduled cleanup
CleanupQos(text) ==
  LET rest == AfterToken(text, "echo 'sacctmgr -i delete qos ")
  IN SubSeq(rest, 1, Len(rest) - 2)
CleanupInstant(text) ==
  LET rest == AfterToken(text, "echo 'sacctmgr -i delete qos ")
  IN rest[Len(rest)]

\* the row's slurm_command names prio-<priority_name>-<duration_days>d and
\* schedules the cleanup at status_updated_at + duration_days days, written
\* to the minute
CommandFollowsFields(p) ==
  LET expected == <<"prio-">> \o p.priority_name \o <<"-", ToString(p.duration_days), "d">>
      instant == p.status_updated_at + p.duration_days * SecondsPerDay
  IN /\ p.slurm_command # Null
     /\ HeaderQos(p.slurm_command) = expected
     /\ CreatedQos(p.slurm_command) = expected
     /\ CleanupQos(p.slurm_command) = expected
     /\ CleanupInstant(p.slurm_command) = ToString(instant \div SecondsPerMinute)

\* C12: for every accepted request the QOS name in slurm_command is
\* prio-<priority_name>-<duration_days>d for its current priority_name, and
\* the cleanup instant in slurm_command is its current status_updated_at plus
\* duration_days days; this holds after a transition to accepted from any
\* status, with the same or another name, and after an update of the
\* additional users.
C12_CommandFollowsNameAndTimestamp ==
  /\ \A i \in Stored :
       priorities[i].status = "accepted" => CommandFollowsFields(priorities[i])
  /\ \A i \in Stored, name \in GoodNames, message \in MessageInputs :
       CommandFollowsFields(StatusResult(i, "accepted", message, name))
  /\ \A i \in Stored, usernames \in GoodUsernames :
       priorities[i].status = "accepted" =>
         CommandFollowsFields(
           update_priority_users(priorities, now, RootId, i, usernames).priorities[i])

\* a request accepted after its submission, at an instant that is not a
\* whole minute, whose additional users were then set
C12_Witness ==
  \E i \in Stored :
    /\ priorities[i].status = "accepted"
    /\ priorities[i].status_updated_at > priorities[i].created_at
    /\ priorities[i].status_updated_at % SecondsPerMinute # 0
    /\ priorities[i].additional_usernames # Null
    /\ CommandFollowsFields(priorities[i])

(***************************** the listings on their own ********************)
\* Three stored requests: two of alice's and one of root's, of durations 7,
\* 14 and 1, the second submitted with the first or with the third, each
\* pending, accepted or refused at the instant of its submission.
ListTickets == << <<"4","2">>, <<"4","3">>, <<"4","4">> >>
ListOwners == <<AliceId, RootId, AliceId>>
ListDurations == <<GoodForm.duration_days, MaxDuration, MinDuration>>
ListCreations == { <<0, 0, SecondsPerMinute>>, <<0, SecondsPerMinute, SecondsPerMinute>> }

ListForm(k) ==
  [GoodForm EXCEPT !.bugzilla_ticket = ListTickets[k], !.duration_days = ListDurations[k]]

\* the row after the administrator's decision, if any
Decided(p, status) ==
  IF status = "pending" THEN p
  ELSE status_update_row(p, status, <<>>,
                         IF status = "accepted" THEN <<"q","1">> ELSE <<>>,
                         p.created_at, Username(RootId))

ListTables ==
  { [k \in DOMAIN ListTickets |->
       Decided(new_priority(form_data(ListForm(k)), ListOwners[k], created[k]), status[k])] :
      status \in [DOMAIN ListTickets -> {"pending", "accepted", "refused"}],
      created \in ListCreations }

InitList ==
  /\ priorities \in ListTables
  /\ nextId = Len(ListTickets) + 1
  /\ now = 0
  /\ ticks = 0
  /\ session = <<>>
  /\ page = NoPage
  /\ procs = <<>>

\* the show_archived arguments of a request
ShowArchivedArgs ==
  { <<"f","a","l","s","e">>, <<"t","r","u","e">>, <<"T","R","U","E">>, <<"1">> }

\* Priority.query...all() has no ORDER BY: the rows come in any order
QueryOrders(table) ==
  { q \in [1..Cardinality(DOMAIN table) -> DOMAIN table] :
      \A j, k \in DOMAIN q : j # k => q[j] # q[k] }

\* a caller the decorator turns away is drawn once
MyPrioritiesCalls ==
  { c \in [caller : Callers, arg : ShowArchivedArgs, query : QueryOrders(priorities)] :
      c.caller = NoUser =>
        c.arg = <<"f","a","l","s","e">> /\ \A j \in DOMAIN c.query : c.query[j] = j }

AdminPanelCalls ==
  { c \in [caller : Callers, arg : ShowArchivedArgs, query : QueryOrders(priorities)] :
      c.caller # RootId =>
        c.arg = <<"f","a","l","s","e">> /\ \A j \in DOMAIN c.query : c.query[j] = j }

MyPriorities ==
  \E c \in MyPrioritiesCalls :
    LET r == my_priorities(priorities, now, c.caller, c.arg, c.query)
    IN /\ priorities' = r.priorities
       /\ page' = r.page
       /\ UNCHANGED <<nextId, now, ticks, session, procs>>

AdminPanel ==
  \E c \in AdminPanelCalls :
    LET r == admin_panel(priorities, now, c.caller, c.arg, c.query)
    IN /\ priorities' = r.priorities
       /\ page' = r.page
       /\ UNCHANGED <<nextId, now, ticks, session, procs>>

NextList ==
  \/ MyPriorities
  \/ AdminPanel
  \/ Tick

SpecList == InitList /\ [][NextList]_vars

(***************************** properties of the listings *******************)
\* the ids a page lists
Listed(rendered) == {rendered.rows[k] : k \in DOMAIN rendered.rows}
\* the rows a caller's own listing draws from
Own(caller) == {i \in Stored : priorities[i].user_id = caller}
\* the arguments that ask for the archived rows, and those that do not
ArchivedArgs == {arg \in ShowArchivedArgs : lower(arg) = <<"t","r","u","e">>}
DefaultArgs == ShowArchivedArgs \ ArchivedArgs
\* accepted, and status_updated_at + duration_days days + 7 days < now
PastCutoff(p) ==
  /\ p.status = "accepted"
  /\ p.status_updated_at + (p.duration_days + ArchiveDays) * SecondsPerDay < now

\* C13: the default listing of my_priorities and of admin_panel omits a
\* request in scope exactly when its status is accepted and status_updated_at
\* + duration_days days + 7 days < now; pending and refused requests are
\* listed whatever their age; with show_archived=true every request in scope
\* is listed.
C13_ListingOmitsExactlyArchived ==
  \A query \in QueryOrders(priorities) :
    /\ \A arg \in DefaultArgs :
         /\ \A caller \in UserIds :
              Listed(my_priorities(priorities, now, caller, arg, query).page)
                = {i \in Own(caller) : ~PastCutoff(priorities[i])}
         /\ Listed(admin_panel(priorities, now, RootId, arg, query).page)
              = {i \in Stored : ~PastCutoff(priorities[i])}
    /\ \A arg \in ArchivedArgs :
         /\ \A caller \in UserIds :
              Listed(my_priorities(priorities, now, caller, arg, query).page) = Own(caller)
         /\ Listed(admin_panel(priorities, now, RootId, arg, query).page) = Stored

\* the administrator's default page, just rendered, omits an accepted request
\* past its cutoff and lists an expired one that is not, and an old pending
\* or refused one
C13_Witness ==
  /\ page.view = "admin" /\ page.clock = now
  /\ \E i \in Stored \ Listed(page) : PastCutoff(priorities[i])
  /\ \E i \in Listed(page) :
       /\ priorities[i].status = "accepted"
       /\ priorities[i].status_updated_at + priorities[i].duration_days * SecondsPerDay < now
  /\ \E i \in Listed(page) :
       /\ priorities[i].status # "accepted"
       /\ priorities[i].created_at + (priorities[i].duration_days + ArchiveDays) * SecondsPerDay < now

\* the requests accepted for a duration of 7 days
AcceptedForAWeek ==
  {i \in Stored : priorities[i].status = "accepted" /\ priorities[i].duration_days = 7}
\* T + 14 days, for a request accepted at T for 7 days
FortnightAfter(i) == priorities[i].status_updated_at + (7 + ArchiveDays) * SecondsPerDay
\* the administrator's and the owner's listing of request i, for an argument
ListingsOf(i, arg) ==
  UNION { { Listed(admin_panel(priorities, now, RootId, arg, query).page),
            Listed(my_priorities(priorities, now, priorities[i].user_id, arg, query).page) } :
          query \in QueryOrders(priorities) }

\* C14 as stated: a request accepted at T with a duration of 7 days is left
\* out of the default listing at every now >= T + 14 days, the instant T + 14
\* days included, is in it at every earlier now, and is in every listing that
\* includes the archived.
C14_ArchivedFromFortnight ==
  \A i \in AcceptedForAWeek :
    /\ \A arg \in DefaultArgs : \A rows \in ListingsOf(i, arg) :
         i \notin rows <=> now >= FortnightAfter(i)
    /\ \A arg \in ArchivedArgs : \A rows \in ListingsOf(i, arg) : i \in rows

\* C14 amended: a request accepted at T with a duration of 7 days is left out
\* of the default listing at every now > T + 14 days, is in it at every now up
\* to and including T + 14 days, and is in every listing that includes the
\* archived.
C14_ArchivedAfterFortnight ==
  \A i \in AcceptedForAWeek :
    /\ \A arg \in DefaultArgs : \A rows \in ListingsOf(i, arg) :
         i \notin rows <=> now > FortnightAfter(i)
    /\ \A arg \in ArchivedArgs : \A rows \in ListingsOf(i, arg) : i \in rows

\* the owner's default page, rendered exactly 14 days after the acceptance,
\* lists the request
C14_Witness ==
  \E i \in AcceptedForAWeek :
    /\ now = FortnightAfter(i)
    /\ page.view = "my_priorities" /\ page.clock = now
    /\ i \in Listed(page)

\* the rows of a page run from the newest to the oldest
NewestFirst(rendered) ==
  \A j, k \in DOMAIN rendered.rows :
    j < k => priorities[rendered.rows[j]].created_at >= priorities[rendered.rows[k]].created_at

\* C15: every listing, of the caller's own requests or of all requests, with
\* or without the archived, is ordered by created_at descending, and producing
\* a listing changes no stored request.
C15_ListingsNewestFirstAndReadOnly ==
  \A query \in QueryOrders(priorities), arg \in ShowArchivedArgs, caller \in Callers :
    /\ NewestFirst(my_priorities(priorities, now, caller, arg, query).page)
    /\ NewestFirst(admin_panel(priorities, now, caller, arg, query).page)
    /\ my_priorities(priorities, now, caller, arg, query).priorities = priorities
    /\ admin_panel(priorities, now, caller, arg, query).priorities = priorities

\* a page of three requests that starts with one submitted after the one it
\* ends with
C15_Witness ==
  /\ Len(page.rows) = Cardinality(Stored) /\ Len(page.rows) > 2
  /\ priorities[page.rows[1]].created_at > priorities[page.rows[Len(page.rows)]].created_at
  /\ page.rows[1] > page.rows[2]

(***************************** submissions on their own *********************)
\* The forms a requester may post: every field well-formed or not, two
\* tickets, with and without additional users, the shortest stay and the
\* longest.  A number field holds the integer int() reads from it, 0 when the
\* field is absent or empty.
AnyForms ==
  [bugzilla_ticket : { <<" ","4","2">>, <<"4","3">>, <<"4","x">> },
   username : { <<"a","l","i","c","e">>, <<" ">>, <<"9","x">> },
   additional_usernames : { <<>>, <<"b","o">>, <<"9","x">> },
   slurm_project : { <<"l","a","b">>, <<"l">> },
   gpu_type : { "v100", "a100" },
   gpu_count : { -1, 0, 1 },
   duration_days : { MinDuration - 1, MinDuration, MaxDuration, MaxDuration + 1 },
   reason : { <<"w","h","y">>, <<" ">> }]

\* the form as the requester filled it in, not posted yet
FilledForm(form) == [view |-> "priority_form", form |-> form, flash |-> <<>>]

\* lines 220-229 and the decorator: the page a posted form is answered with
submit_page(form, flash) ==
  [view |-> IF flash = <<"confirm page">> THEN "confirm_priority"
            ELSE IF flash = <<"redirect to login">> THEN "redirect"
            ELSE "priority_form_errors",
   form |-> form,
   flash |-> flash]

InitSubmit ==
  /\ priorities = <<>>
  /\ nextId = 1
  /\ now = 0
  /\ ticks = 0
  /\ session = <<>>
  /\ \E form \in AnyForms : page = FilledForm(form)
  /\ procs = <<>>

\* POST /submit_priority with the form of the page
PostForm ==
  \E caller \in {AliceId, NoUser} :
    LET r == submit_priority(session, caller, page.form)
    IN /\ session' = r.session
       /\ page' = submit_page(page.form, r.flash)
       /\ UNCHANGED <<priorities, nextId, now, ticks, procs>>

NextSubmit ==
  \/ PostForm
  \/ ConfirmPriority

SpecSubmit == InitSubmit /\ [][NextSubmit]_vars

(***************************** properties of submissions ********************)
\* the messages a flash list holds
Flashed(flash) == {flash[k] : k \in DOMAIN flash}

\* The checks of a submission a form violates, each named by its message.
\* The requester-username check is the handler's: the field is not blank.
Violated(form) ==
  LET ticket == strip(form.bugzilla_ticket)
      project == strip(form.slurm_project)
      others == strip(form.additional_usernames)
  IN   (IF ticket = <<>> \/ Len(ticket) > MaxTicketLen
           \/ \E k \in DOMAIN ticket : ticket[k] \notin Digits
        THEN {"Invalid Bugzilla ticket format"} ELSE {})
  \cup (IF strip(form.username) = <<>> THEN {"Username is required"} ELSE {})
  \cup (IF others # <<>> /\ ~validate_username(others)
        THEN {"Invalid additional usernames format"} ELSE {})
  \cup (IF ~validate_username(project)
        THEN {"Valid SLURM project is required"} ELSE {})
  \cup (IF form.gpu_type \notin GpuTypes THEN {"Valid GPU type is required"} ELSE {})
  \cup (IF form.gpu_count < 1 THEN {"GPU count must be at least 1"} ELSE {})
  \cup (IF form.duration_days \notin MinDuration..MaxDuration
        THEN {"Duration must be between 1 and 14 days (maximum 2 weeks)"} ELSE {})
  \cup (IF strip(form.reason) = <<>> THEN {"Reason is required"} ELSE {})

\* C18: submit reports every violated rule, not only the first: for any
\* submission the error list holds one error for each check (ticket,
\* requester username, additional usernames, project, GPU type, GPU count >=
\* 1, duration in [1,14], reason) the input violates; and a submission with a
\* duration outside [1,14] or a GPU count < 1 is never accepted for
\* confirmation or stored.
C18_EveryViolationReported ==
  /\ LET out == submit_priority(session, AliceId, page.form)
     IN /\ Violated(page.form) # {} =>
             /\ Flashed(out.flash) = Violated(page.form)
             /\ Len(out.flash) = Cardinality(Violated(page.form))
             /\ out.session = session
        /\ Violated(page.form) = {} => out.session = <<form_data(page.form)>>
  /\ page.view = "priority_form_errors" =>
       /\ Flashed(page.flash) = Violated(page.form)
       /\ Len(page.flash) = Cardinality(Violated(page.form))
       /\ Violated(page.form) # {}
  /\ page.view = "confirm_priority" => Violated(page.form) = {}
  /\ page.form.duration_days \notin MinDuration..MaxDuration \/ page.form.gpu_count < 1 =>
       session = <<>> /\ Stored = {}
  /\ \A k \in DOMAIN session :
       session[k].duration_days \in MinDuration..MaxDuration /\ session[k].gpu_count >= 1
  /\ \A i \in Stored :
       priorities[i].duration_days \in MinDuration..MaxDuration /\ priorities[i].gpu_count >= 1

\* a form that breaks every check has been posted and answered with all
\* eight errors
C18_Witness ==
  /\ page.view = "priority_form_errors"
  /\ Len(page.flash) = 8
  /\ page.form.duration_days > MaxDuration /\ page.form.gpu_count < 1
  /\ session = <<>>

\* C19 as stated: submit rejects with a validation error every submission
\* whose requester-username field does not pass validate_username (letter
\* first, allowed characters, length 2-50), the rule it applies to the
\* additional usernames and to the project name.
C19_RequesterUsernameValidated ==
  /\ page.view = "confirm_priority" => validate_username(strip(page.form.username))
  /\ \A k \in DOMAIN session : validate_username(session[k].username)

\* the rows confirm_priority has stored without any administrator's action
PendingWithoutAdminFields(p) ==
  /\ p.status = "pending"
  /\ p.priority_name = Null
  /\ p.slurm_command = Null
  /\ p.admin_message = Null
  /\ p.status_updated_at = NullTime
  /\ p.status_updated_by = Null

\* C20: every request created by a confirmed submission starts with status
\* pending and with priority_name, slurm_command, admin_message,
\* status_updated_at and status_updated_by null.
C20_CreatedPendingWithoutAdminFields ==
  /\ \A i \in Stored : PendingWithoutAdminFields(priorities[i])
  /\ session # <<>> /\ ~ticket_taken(priorities, session[1].bugzilla_ticket) =>
       LET r == confirm_priority(priorities, nextId, session, now, AliceId)
       IN /\ DOMAIN r.priorities = Stored \cup {nextId}
          /\ PendingWithoutAdminFields(r.priorities[nextId])

\* a confirmed submission with additional users is stored
C20_Witness ==
  \E i \in Stored :
    /\ priorities[i].additional_usernames # Null
    /\ priorities[i].user_id = AliceId
    /\ session = <<>>
    /\ page.view = "confirm_priority"

(***************************** one request per ticket ***********************)
\* the stored requests with the ticket of the staged submission
StoredWithStagedTicket ==
  {i \in Stored : session # <<>> /\ priorities[i].bugzilla_ticket = session[1].bugzilla_ticket}

\* C16: in every reachable state no two stored requests have the same
\* Bugzilla ticket: a confirmed submission whose ticket is that of a stored
\* request fails, stores nothing and leaves the stored request unchanged.
C16_OneRequestPerTicket ==
  /\ \A i, j \in Stored :
       i # j => priorities[i].bugzilla_ticket # priorities[j].bugzilla_ticket
  /\ StoredWithStagedTicket # {} =>
       LET r == confirm_priority(priorities, nextId, session, now, AliceId)
       IN /\ r.priorities = priorities
          /\ r.nextId = nextId
          /\ r.flash = <<"A priority with this Bugzilla ticket already exists.">>

\* the ticket of a request accepted some time ago is staged once more
C16_Witness ==
  \E i \in StoredWithStagedTicket :
    /\ priorities[i].status = "accepted"
    /\ now > priorities[i].created_at

(***************************** two confirmations at once ********************)
\* Each of two logged-in callers has a submission staged in a session of their
\* own and posts /confirm_priority.  A request runs in three steps: it reads
\* its session and builds the row (lines 235-262), it flushes the INSERT
\* (lines 266-267) and it commits (line 269).  The table priorities holds the
\* committed rows; a flushed row is visible to its own transaction only.
RaceForms ==
  { form_data([GoodForm EXCEPT !.bugzilla_ticket = t, !.additional_usernames = a]) :
      t \in { <<"4","2">>, <<"4","3">> }, a \in { <<>>, <<"b","o">> } }

\* a request that has not started: its caller's session and nothing else
Waiting(staged) ==
  [pc |-> "start", session |-> staged, priority |-> <<>>, id |-> NoId, flash |-> <<>>]

InitRace ==
  /\ priorities = <<>>
  /\ nextId = 1
  /\ now = 0
  /\ ticks = 0
  /\ session = <<>>
  /\ page = NoPage
  /\ \E a, b \in RaceForms :
       procs = [c \in UserIds |-> Waiting(IF c = AliceId THEN <<a>> ELSE <<b>>)]

\* mutant: an INSERT does not wait for an uncommitted row with its ticket
insert_blocked_never(requests, caller, ticket) == FALSE

\* The unique index makes an INSERT wait while another transaction holds an
\* uncommitted row with the same ticket.
insert_blocked(requests, caller, ticket) ==
  \E other \in DOMAIN requests \ {caller} :
    /\ requests[other].pc = "flushed"
    /\ requests[other].priority[1].bugzilla_ticket = ticket

\* lines 235-262: the staged data is read and the row is built
ConfirmBegin ==
  \E c \in DOMAIN procs :
    /\ procs[c].pc = "start"
    /\ procs' = [procs EXCEPT ![c] =
         IF procs[c].session = <<>>
         THEN [@ EXCEPT !.pc = "done",
                        !.flash = <<"No priority data found. Please fill out the form again.">>]
         ELSE [@ EXCEPT !.pc = "built",
                        !.priority = <<new_priority(procs[c].session[1], c, now)>>]]
    /\ UNCHANGED <<priorities, nextId, now, ticks, session, page>>

\* lines 266-267 and 286-295: the INSERT takes an id, or fails on a committed
\* row with its ticket and is rolled back
ConfirmFlush ==
  \E c \in DOMAIN procs :
    /\ procs[c].pc = "built"
    /\ ~insert_blocked(procs, c, procs[c].priority[1].bugzilla_ticket)
    /\ IF ticket_taken(priorities, procs[c].priority[1].bugzilla_ticket)
       THEN /\ procs' = [procs EXCEPT ![c] =
                 [@ EXCEPT !.pc = "done",
                           !.flash = <<"A priority with this Bugzilla ticket already exists.">>]]
            /\ UNCHANGED nextId
       ELSE /\ procs' = [procs EXCEPT ![c] = [@ EXCEPT !.pc = "flushed", !.id = nextId]]
            /\ nextId' = nextId + 1
    /\ UNCHANGED <<priorities, now, ticks, session, page>>

\* lines 269-284: the commit, the session cleared, the success message
ConfirmCommit ==
  \E c \in DOMAIN procs :
    /\ procs[c].pc = "flushed"
    /\ priorities' = [i \in DOMAIN priorities \cup {procs[c].id} |->
                        IF i = procs[c].id THEN procs[c].priority[1] ELSE priorities[i]]
    /\ procs' = [procs EXCEPT ![c] =
         [@ EXCEPT !.pc = "done", !.session = <<>>,
                   !.flash = <<"Priority submitted successfully!">>]]
    /\ UNCHANGED <<nextId, now, ticks, session, page>>

NextRace ==
  \/ ConfirmBegin
  \/ ConfirmFlush
  \/ ConfirmCommit

SpecRace == InitRace /\ [][NextRace]_vars

\* both requests are over
BothDone == \A c \in DOMAIN procs : procs[c].pc = "done"
\* the callers told that their request is stored, and that it is a duplicate
ToldSuccess == {c \in DOMAIN procs : procs[c].flash = <<"Priority submitted successfully!">>}
ToldDuplicate ==
  {c \in DOMAIN procs :
     procs[c].flash = <<"A priority with this Bugzilla ticket already exists.">>}
\* the ticket a finished request was for
TicketOf(c) == procs[c].priority[1].bugzilla_ticket
\* the two callers confirmed the same ticket
SameTicket == BothDone /\ \A c, d \in DOMAIN procs : TicketOf(c) = TicketOf(d)

\* C17: when two callers run confirm_priority at once for the same ticket,
\* both past validation before either commits, then in every interleaving
\* exactly one request with that ticket ends up stored, exactly one caller is
\* told success and the other is told the ticket is a duplicate, and the
\* stored request holds the winner's fields only.
C17_OneConfirmationWins ==
  /\ \A i, j \in Stored :
       i # j => priorities[i].bugzilla_ticket # priorities[j].bugzilla_ticket
  /\ SameTicket =>
       /\ Cardinality(Stored) = 1
       /\ Cardinality(ToldSuccess) = 1
       /\ Cardinality(ToldDuplicate) = 1
       /\ \A w \in ToldSuccess, i \in Stored :
            /\ priorities[i] = procs[w].priority[1]
            /\ priorities[i].user_id = w
            /\ procs[w].session = <<>>
       /\ \A l \in ToldDuplicate : procs[l].session # <<>>

\* root's confirmation won over alice's, for the same ticket and other
\* additional users
C17_Witness ==
  /\ SameTicket
  /\ ToldSuccess = {RootId} /\ ToldDuplicate = {AliceId}
  /\ procs[AliceId].priority[1].additional_usernames
       # procs[RootId].priority[1].additional_usernames
  /\ \E i \in Stored :
       priorities[i].additional_usernames = procs[RootId].priority[1].additional_usernames

(***************************** calls that must change nothing ***************)
\* Calls of the four administrator handlers by a caller who is not logged in
\* or not an administrator, or for an id that is not stored, on the tables of
\* three requests; alice owns the first and the third.
StrayStatusCalls ==
  { c \in [caller : Callers, id : IdInputs, status : StatusInputs,
           admin_message : MessageInputs, priority_name : PriorityNameInputs] :
      c.caller # RootId \/ c.id \notin DOMAIN priorities }

StrayUsersCalls ==
  { c \in [caller : Callers, id : IdInputs, usernames : UpdateUsernamesInputs] :
      c.caller # RootId \/ c.id \notin DOMAIN priorities }

StrayMessageCalls ==
  { c \in [caller : Callers, id : IdInputs, message : MessageInputs] :
      c.caller # RootId \/ c.id \notin DOMAIN priorities }

StrayDeleteCalls ==
  { c \in [caller : Callers, id : IdInputs] :
      c.caller # RootId \/ c.id \notin DOMAIN priorities }

\* the redirect a handler answers with, and the messages flashed on it
Redirected(clock, flash) == [view |-> "redirect", clock |-> clock, rows |-> <<>>, flash |-> flash]

InitStray ==
  /\ priorities \in ListTables
  /\ nextId = Len(ListTickets) + 1
  /\ now = 0
  /\ ticks = 0
  /\ session = <<>>
  /\ page = Redirected(0, <<>>)
  /\ procs = <<>>

StrayStatusUpdate ==
  \E c \in StrayStatusCalls :
    LET r == update_priority_status(priorities, now, c.caller, c.id, c.status,
                                    c.admin_message, c.priority_name)
    IN /\ priorities' = r.priorities
       /\ page' = Redirected(now, r.flash)
       /\ UNCHANGED <<nextId, now, ticks, session, procs>>

StrayUsersUpdate ==
  \E c \in StrayUsersCalls :
    LET r == update_priority_users(priorities, now, c.caller, c.id, c.usernames)
    IN /\ priorities' = r.priorities
       /\ page' = Redirected(now, r.flash)
       /\ UNCHANGED <<nextId, now, ticks, session, procs>>

StrayMessage ==
  \E c \in StrayMessageCalls :
    LET r == add_message(priorities, now, c.caller, c.id, c.message)
    IN /\ priorities' = r.priorities
       /\ page' = Redirected(now, r.flash)
       /\ UNCHANGED <<nextId, now, ticks, session, procs>>

StrayDelete ==
  \E c \in StrayDeleteCalls :
    LET r == delete_priority(priorities, c.caller, c.id)
    IN /\ priorities' = r.priorities
       /\ page' = Redirected(now, r.flash)
       /\ UNCHANGED <<nextId, now, ticks, session, procs>>

NextStray ==
  \/ StrayStatusUpdate
  \/ StrayUsersUpdate
  \/ StrayMessage
  \/ StrayDelete
  \/ Tick

SpecStray == InitStray /\ [][NextStray]_vars

\* the callers who are not administrators: nobody, and alice, an owner
NotAdmins == {c \in Callers : c = NoUser \/ ~is_admin_user(Username(c))}

\* C21: a stored request is mutated or removed only by an administrator:
\* update_priority_status, update_priority_users, add_message and
\* delete_priority invoked by a caller who is not logged in or whose username
\* is not in the admin directory leave every stored request unchanged, also
\* when the caller owns the request.
C21_OnlyAdministratorsMutate ==
  \A caller \in NotAdmins, id \in IdInputs :
    /\ \A status \in StatusInputs, message \in MessageInputs, name \in PriorityNameInputs :
         update_priority_status(priorities, now, caller, id, status, message, name).priorities
           = priorities
    /\ \A usernames \in UpdateUsernamesInputs :
         update_priority_users(priorities, now, caller, id, usernames).priorities = priorities
    /\ \A message \in MessageInputs :
         add_message(priorities, now, caller, id, message).priorities = priorities
    /\ delete_priority(priorities, caller, id).priorities = priorities

\* alice, who owns a pending and an accepted request, has just been denied
C21_Witness ==
  /\ page.flash = <<"Access denied. Admin privileges required.">>
  /\ page.clock = now
  /\ \E i, j \in Stored :
       /\ priorities[i].user_id = AliceId /\ priorities[i].status = "pending"
       /\ priorities[j].user_id = AliceId /\ priorities[j].status = "accepted"

\* the ids a call may name that are not stored
MissingIds == IdInputs \ Stored

\* C24: a status update, message append, additional-users update or delete
\* that names a request id not present in the store fails and leaves every
\* stored request unchanged; it creates no request.
C24_MissingIdChangesNothing ==
  \A caller \in Callers, id \in MissingIds :
    /\ \A status \in StatusInputs, message \in MessageInputs, name \in PriorityNameInputs :
         LET r == update_priority_status(priorities, now, caller, id, status, message, name)
         IN r.priorities = priorities /\ r.flash # <<"Priority status updated">>
    /\ \A usernames \in UpdateUsernamesInputs :
         LET r == update_priority_users(priorities, now, caller, id, usernames)
         IN r.priorities = priorities /\ r.flash # <<"Priority users updated successfully">>
    /\ \A message \in MessageInputs :
         LET r == add_message(priorities, now, caller, id, message)
         IN r.priorities = priorities /\ r.flash # <<"Message added to priority">>
    /\ LET r == delete_priority(priorities, caller, id)
       IN r.priorities = priorities /\ r.flash # <<"Priority deleted successfully">>

\* an administrator's call for an id that is not stored has just failed
C24_Witness ==
  /\ page.flash \in { <<"Error updating priority status">>, <<"Error updating priority users">>,
                      <<"Error adding message">>, <<"Error deleting priority">> }
  /\ Stored # {}

(***************************** the log only grows ***************************)
\* the text of a log, empty when the column is null
LogText(m) == IF Falsy(m) THEN <<>> ELSE m
\* a is the beginning of b
IsPrefix(a, b) == Len(a) <= Len(b) /\ SubSeq(b, 1, Len(a)) = a
\* the later log keeps the earlier one as it was and adds whole entries only
Extends(later, earlier) ==
  /\ IsPrefix(LogText(earlier), LogText(later))
  /\ LogLen(later) >= LogLen(earlier)
  /\ LogText(earlier) # <<>> /\ Len(LogText(later)) > Len(LogText(earlier)) =>
       SubSeq(LogText(later), Len(LogText(earlier)) + 1, Len(LogText(earlier)) + 2)
         = <<"\n", "\n">>

\* C22: the message log is append-only: over any run of status updates to any
\* status, add_message and update_additional_users on a stored request, the
\* log of a later state has the log of every earlier state as a prefix; no
\* operation removes, reorders or rewrites an entry.  Being a prefix is
\* transitive, so it is stated for one operation from every reachable state.
C22_LogAppendOnly ==
  \A i \in Stored :
    /\ \A status \in StatusInputs, message \in MessageInputs, name \in PriorityNameInputs :
         Extends(update_priority_status(priorities, now, RootId, i, status, message, name)
                   .priorities[i].admin_message,
                 priorities[i].admin_message)
    /\ \A message \in MessageInputs :
         Extends(add_message(priorities, now, RootId, i, message).priorities[i].admin_message,
                 priorities[i].admin_message)
    /\ \A usernames \in UpdateUsernamesInputs :
         Extends(update_priority_users(priorities, now, RootId, i, usernames)
                   .priorities[i].admin_message,
                 priorities[i].admin_message)

\* a request refused after its acceptance and some time later: its log still
\* holds the entry of the acceptance, and the next operation appends to it
C22_Witness ==
  \E i \in Stored :
    /\ priorities[i].status = "refused"
    /\ LogLen(priorities[i].admin_message) = 1
    /\ now > priorities[i].created_at
    /\ LogLen(add_message(priorities, now, RootId, i, <<" ","o","k">>)
                .priorities[i].admin_message) = 2

(***************************** refusals and archival ************************)
\* C26 as stated: refuse can fail only with NotFound: a refuse issued by an
\* administrator on an existing request always succeeds, whatever else the
\* status form carries, the priority-name field included.
C26_RefuseAlwaysSucceeds ==
  \A i \in Stored, message \in MessageInputs, name \in PriorityNameInputs :
    LET r == update_priority_status(priorities, now, RootId, i, "refused", message, name)
    IN /\ r.flash = <<"Priority status updated">>
       /\ r.priorities[i].status = "refused"

\* the default listing hides the row at this clock reading
Archived(p, clock) == ~should_include(p, clock)

\* C27 as stated: archival is terminal: once a stored request is hidden from
\* the default listing it stays hidden in every later state for as long as it
\* is stored, whatever operation follows and however much time passes.
C27_ArchivalTerminal ==
  [][\A i \in DOMAIN priorities \cap DOMAIN priorities' :
       Archived(priorities[i], now) => Archived(priorities'[i], now')]_vars

(***************************** the generator's preconditions ****************)
\* the row satisfies what the generator asks of it
ReadyForGenerator(p) == p.priority_name # Null /\ p.priority_name # <<>>
                          /\ p.status_updated_at # NullTime

\* C28: the lifecycle operations never invoke the generator on a request
\* that cannot satisfy its preconditions: at every call of
\* generate_slurm_command from update_priority_status and from
\* update_priority_users the request has a non-null priority_name and a
\* non-null status_updated_at.
C28_GeneratorCalledWhenReady ==
  /\ \A i \in Stored, status \in StatusInputs, message \in MessageInputs,
        name \in PriorityNameInputs :
       status_form_error(i, status, strip(name)) = <<>> =>
         LET given == status_generator_input(priorities[i], status, strip(message),
                                             strip(name), now, Username(RootId))
         IN \A k \in DOMAIN given : ReadyForGenerator(given[k])
  /\ \A i \in Stored, usernames \in GoodUsernames :
       LET given == users_generator_input(priorities[i], strip(usernames))
       IN \A k \in DOMAIN given : ReadyForGenerator(given[k])
  /\ \A i \in Stored :
       priorities[i].slurm_command # Null => HasCleanupBlock(priorities[i].slurm_command)

\* some time after its acceptance, an accepted request is about to be handed
\* to the generator by a users update and by a second acceptance
C28_Witness ==
  \E i \in Stored :
    /\ priorities[i].status = "accepted"
    /\ users_generator_input(priorities[i], <<"b","o">>) # <<>>
    /\ status_generator_input(priorities[i], "accepted", <<>>, <<"q","1">>, now,
                              Username(RootId)) # <<>>
    /\ now > priorities[i].status_updated_at

(***************************** what is stored *******************************)
\* C29: every stored request, in every reachable state, has duration_days in
\* 1..14, gpu_count >= 1, gpu_type in {rtx3090, v100, h100} and status in
\* {pending, accepted, refused}: submit_priority validates and stages the
\* data, confirm_priority stores the staged data, and nothing that did not
\* pass the validation is ever persisted.
C29_StoredFieldsInRange ==
  /\ \A i \in Stored :
       /\ priorities[i].duration_days \in 1..14
       /\ priorities[i].gpu_count >= 1
       /\ priorities[i].gpu_type \in {"rtx3090", "v100", "h100"}
       /\ priorities[i].status \in {"pending", "accepted", "refused"}
  /\ \A k \in DOMAIN session : submit_errors(session[k]) = <<>>
  /\ \A form \in SubmitForms :
       submit_errors(form_data(form)) # <<>> =>
         submit_priority(session, AliceId, form).session = session

\* a stored request has gone through a refusal while a submission is staged
C29_Witness ==
  /\ session # <<>>
  /\ \E i \in Stored : priorities[i].status = "refused" /\ priorities[i].duration_days = 7

\* the fields a submission sets once and for all
SubmissionFields(p) ==
  <<p.bugzilla_ticket, p.user_id, p.slurm_project, p.gpu_type, p.gpu_count,
    p.duration_days, p.reason, p.created_at>>

\* C30: no administrator operation other than delete changes the submission
\* fields of a stored request: after any sequence of status updates,
\* add_message and update_additional_users its ticket, requester, project,
\* GPU type, GPU count, duration, reason and creation time are those stored at
\* submission.
C30_SubmissionFieldsKept ==
  \A i \in Stored :
    /\ \A status \in StatusInputs, message \in MessageInputs, name \in PriorityNameInputs :
         SubmissionFields(StatusResult(i, status, message, name))
           = SubmissionFields(priorities[i])
    /\ \A message \in MessageInputs :
         SubmissionFields(add_message(priorities, now, RootId, i, message).priorities[i])
           = SubmissionFields(priorities[i])
    /\ \A usernames \in UpdateUsernamesInputs :
         SubmissionFields(update_priority_users(priorities, now, RootId, i, usernames)
                            .priorities[i])
           = SubmissionFields(priorities[i])
    /\ priorities[i].created_at \in 0..now
    /\ SubmissionFields(priorities[i])
         = SubmissionFields(new_priority(form_data(GoodForm), AliceId,
                                         priorities[i].created_at))

\* a request accepted and given other users some time after its submission
C30_Witness ==
  \E i \in Stored :
    /\ priorities[i].status = "accepted"
    /\ priorities[i].additional_usernames # Null
    /\ priorities[i].admin_message # Null
    /\ priorities[i].status_updated_at > priorities[i].created_at

(***************************** the ticket validator alone *******************)
\* SpecTicket: one ticket string is drawn and validate_bugzilla_ticket is
\* applied to it; the string and the verdict are kept in page.
MaxTicketChars == 4
TicketAlphabet == {"7", "a", " ", "\n"}

\* n copies of the digit
Sevens(n) == [i \in 1..n |-> "7"]

\* short strings over the alphabet, and strings around the length limit
TicketInputs ==
  UNION { [1..n -> TicketAlphabet] : n \in 0..MaxTicketChars }
    \cup { Sevens(MaxTicketLen), Sevens(MaxTicketLen + 1),
           <<" ">> \o Sevens(MaxTicketLen) \o <<"\n">>,
           <<" ">> \o Sevens(MaxTicketLen + 1),
           Sevens(MaxTicketLen - 1) \o <<"a">> }

TicketPage(ticket, checked, valid) ==
  [view |-> "ticket", ticket |-> ticket, checked |-> checked, valid |-> valid]

InitTicket ==
  /\ priorities = <<>>
  /\ nextId = 1
  /\ now = 0
  /\ ticks = 0
  /\ session = <<>>
  /\ \E ticket \in TicketInputs : page = TicketPage(ticket, FALSE, FALSE)
  /\ procs = <<>>

\* validate_bugzilla_ticket(ticket)
ValidateBugzillaTicket ==
  /\ ~page.checked
  /\ page' = TicketPage(page.ticket, TRUE, validate_bugzilla_ticket(page.ticket))
  /\ UNCHANGED <<priorities, nextId, now, ticks, session, procs>>

NextTicket == ValidateBugzillaTicket

SpecTicket == InitTicket /\ [][NextTicket]_vars

\* every character of t is a digit
AllDigits(t) == \A i \in 1..Len(t) : t[i] \in Digits

\* t is a non-empty run of at most 50 digits with nothing but whitespace
\* before and after it
PaddedDigits(t) ==
  \E lo \in 1..Len(t), hi \in 1..Len(t) :
    /\ lo <= hi
    /\ hi - lo + 1 <= MaxTicketLen
    /\ \A i \in lo..hi : t[i] \in Digits
    /\ \A i \in 1..Len(t) : (i < lo \/ i > hi) => t[i] \in Whitespace

AdminOps ==
  { [handler |-> "status", status |-> "accepted", text |-> <<>>, name |-> <<"q","1">>],
    [handler |-> "status", status |-> "refused", text |-> <<>>, name |-> <<>>],
    [handler |-> "message", status |-> "", text |-> <<"o","k">>, name |-> <<>>],
    [handler |-> "users", status |-> "", text |-> <<"b","o">>, name |-> <<>>] }

\* what the handler of the form does to its loaded row
apply_op(p, op, clock) ==
  IF op.handler = "status"
  THEN status_update_row(p, op.status, op.text, op.name, clock, Username(RootId))
  ELSE IF op.handler = "message"
  THEN message_row(p, op.text, clock, Username(RootId))
  ELSE users_update_row(p, op.text, clock)

\* db.session.commit(): the UPDATE sets the columns whose value on the
\* session's object differs from the value it was loaded with
flush(current, loaded, changed) ==
  [column \in DOMAIN changed |->
     IF changed[column] # loaded[column] THEN changed[column] ELSE current[column]]

\* the request both administrators act on, pending or already accepted
RaceRows ==
  { Decided(new_priority(form_data(GoodForm), AliceId, 0), status) :
      status \in {"pending", "accepted"} }

\* a form posted from the admin panel, which showed the row as it was stored
Posted(op, row) ==
  [pc |-> "start", op |-> op, shown |-> row, clock |-> 0,
   loaded |-> <<>>, changed |-> <<>>]

InitAdminRace ==
  /\ \E row \in RaceRows : priorities = <<row>>
  /\ nextId = 2
  /\ now = 0
  /\ ticks = 0
  /\ session = <<>>
  /\ page = admin_panel(priorities, 0, RootId, Null, <<1>>).page
  /\ \E a, b \in AdminOps :
       procs = <<Posted(a, priorities[1]), Posted(b, priorities[1])>>

\* Priority.query.get_or_404(priority_id)
AdminLoad ==
  \E k \in DOMAIN procs :
    /\ procs[k].pc = "start"
    /\ procs' = [procs EXCEPT ![k] = [@ EXCEPT !.pc = "loaded",
                                               !.loaded = <<priorities[1]>>]]
    /\ UNCHANGED <<priorities, nextId, now, ticks, session, page>>

\* the handler's assignments to the loaded object
AdminChange ==
  \E k \in DOMAIN procs :
    /\ procs[k].pc = "loaded"
    /\ procs' = [procs EXCEPT ![k] =
         [@ EXCEPT !.pc = "changed",
                   !.clock = now,
                   !.changed = <<apply_op(procs[k].loaded[1], procs[k].op, now)>>]]
    /\ UNCHANGED <<priorities, nextId, now, ticks, session, page>>

\* db.session.commit()
AdminCommit ==
  \E k \in DOMAIN procs :
    /\ procs[k].pc = "changed"
    /\ priorities' = [priorities EXCEPT ![1] =
                        flush(priorities[1], procs[k].loaded[1], procs[k].changed[1])]
    /\ procs' = [procs EXCEPT ![k] = [@ EXCEPT !.pc = "done"]]
    /\ UNCHANGED <<nextId, now, ticks, session, page>>

NextAdminRace ==
  \/ AdminLoad
  \/ AdminChange
  \/ AdminCommit
  \/ Tick

SpecAdminRace == InitAdminRace /\ [][NextAdminRace]_vars

\* both requests have committed
BothCommitted == \A k \in DOMAIN procs : procs[k].pc = "done"

\* the row when the two forms were posted
RowBefore == procs[1].shown

\* the two requests run one after the other, each reading the clock it read
Serial(first, second) ==
  apply_op(apply_op(RowBefore, procs[first].op, procs[first].clock),
           procs[second].op, procs[second].clock)

\* the entries the request's handler appends to the log
Appends(op) ==
  IF op.handler = "message" \/ (op.handler = "status" /\ op.status = "accepted")
  THEN 1 ELSE 0

\* C23 as stated: concurrent administrator operations on the same request
\* serialize: for every interleaving of the load, change and commit steps of
\* two operations (any pair of accept, refuse, add_message and
\* update_additional_users) the stored request ends up as if the two had run
\* in one of the two serial orders, and no appended message is lost.
C23_ConcurrentOpsSerialize ==
  (procs # <<>> /\ BothCommitted) =>
    /\ priorities[1] \in {Serial(1, 2), Serial(2, 1)}
    /\ LogLen(priorities[1].admin_message)
         = LogLen(RowBefore.admin_message) + Appends(procs[1].op) + Appends(procs[2].op)

(***************************** the two archival predicates ******************)
\* C31: the two archival predicates agree: for every request and every time
\* now, Priority.is_archived is true exactly when the listing filter of
\* my_priorities and of admin_panel leaves the request out of the default
\* listing.
C31_ArchivalPredicatesAgree ==
  \A i \in Stored :
    /\ is_archived(priorities[i], now) <=> ~should_include(priorities[i], now)
    /\ \A arg \in DefaultArgs : \A rows \in ListingsOf(i, arg) :
         i \notin rows <=> is_archived(priorities[i], now)

\* the administrator's default page, just rendered, omits a request that
\* is_archived and lists an accepted one that stands at its cutoff instant
C31_Witness ==
  /\ page.view = "admin" /\ page.clock = now
  /\ \E i \in Stored \ Listed(page) : is_archived(priorities[i], now)
  /\ \E i \in Listed(page) :
       /\ valid_until(priorities[i]) # NullTime
       /\ valid_until(priorities[i]) + ArchiveDays * SecondsPerDay = now
       /\ ~is_archived(priorities[i], now)

(***************************** accept against a users update ****************)
\* one request is an accept and the other an update of the additional users
AcceptAgainstUsers ==
  /\ procs # <<>>
  /\ \E k, j \in DOMAIN procs :
       /\ procs[k].op.handler = "status" /\ procs[k].op.status = "accepted"
       /\ procs[j].op.handler = "users"

\* C32 as stated: under every interleaving of an accept and an
\* update_additional_users issued at once by two administrators on the same
\* request, each loading the row, computing, and committing the fields it
\* changed, once both have committed an accepted request's slurm_command
\* names exactly the requester followed by the stored additional usernames.
C32_CommandNamesStoredUsers ==
  (AcceptAgainstUsers /\ BothCommitted /\ priorities[1].status = "accepted") =>
    AssignedUsers(priorities[1].slurm_command)
      = <<Username(priorities[1].user_id)>> \o additional_usernames_list(priorities[1])

====
